---- MODULE Spec2Model ----
(***************************************************************************)
(* Model of the wasmer host/guest example: the host driver and its four    *)
(* host functions (src/src/main.rs) and the sample guest module            *)
(* (src/wasm-sample-app/src/lib.rs).                                       *)
(*                                                                         *)
(* Text is modelled as sequences of byte values; guest linear memory is a  *)
(* sequence of bytes addressed from offset 0.                              *)
(***************************************************************************)
EXTENDS Integers, Sequences, FiniteSets, TLC

\* ------------------------------------------------------------------ bounds
\* Number of zero bytes below the guest's read-only data (stack region).
DataBase == 2
\* Number of guest execution contexts that may call back into the host.
NCtx == 2
\* Host calls an arbitrary guest may make over one run of the driver.
MaxHostCalls == 2

\* --------------------------------------------------------- program constants
\* for i in 0..4
NumAttempts == 4
\* panic!("oh no") sits on line 53, column 5 of the guest source
PanicLine == 53
PanicColumn == 5

Free == -1
Driver == -2
Ctxs == 0 .. (NCtx - 1)

\* ------------------------------------------------------------------- text
\* "Hello, World!"
HELLO == <<72, 101, 108, 108, 111, 44, 32, 87, 111, 114, 108, 100, 33>>
\* "oh no"
OhNo == <<111, 104, 32, 110, 111>>
\* "src/lib.rs"
PanicFile == <<115, 114, 99, 47, 108, 105, 98, 46, 114, 115>>
\* bytes of the guest's memory that are not text: U+00E9 followed by 0xFF
Binary == <<195, 169, 255>>

Zeros(n) == [k \in 1 .. n |-> 0]

\* The guest's linear memory: zeroed low region, then the static data.
Memory == Zeros(DataBase) \o HELLO \o OhNo \o PanicFile \o Binary
MemSize == Len(Memory)

HelloPtr == DataBase
OhNoPtr == HelloPtr + Len(HELLO)
FilePtr == OhNoPtr + Len(OhNo)
BinaryPtr == FilePtr + Len(PanicFile)

IsCont(b) == b >= 128 /\ b <= 191

\* std::str::from_utf8 validity of a byte sequence
RECURSIVE IsUtf8(_)
IsUtf8(s) ==
  IF s = <<>> THEN TRUE
  ELSE LET b == s[1]
           n == Len(s)
           rest(k) == SubSeq(s, k + 1, n)
       IN  IF b < 128 THEN IsUtf8(rest(1))
           ELSE IF b >= 194 /\ b <= 223
             THEN n >= 2 /\ IsCont(s[2]) /\ IsUtf8(rest(2))
           ELSE IF b >= 224 /\ b <= 239
             THEN /\ n >= 3
                  /\ IF b = 224 THEN s[2] >= 160 /\ s[2] <= 191
                     ELSE IF b = 237 THEN s[2] >= 128 /\ s[2] <= 159
                     ELSE IsCont(s[2])
                  /\ IsCont(s[3])
                  /\ IsUtf8(rest(3))
           ELSE IF b >= 240 /\ b <= 244
             THEN /\ n >= 4
                  /\ IF b = 240 THEN s[2] >= 144 /\ s[2] <= 191
                     ELSE IF b = 244 THEN s[2] >= 128 /\ s[2] <= 143
                     ELSE IsCont(s[2])
                  /\ IsCont(s[3])
                  /\ IsCont(s[4])
                  /\ IsUtf8(rest(4))
           ELSE FALSE

None == [some |-> FALSE]
Some(v) == [some |-> TRUE, val |-> v]

\* WasmPtr::get_utf8_string(memory, len): None when the range leaves the
\* memory or the bytes are not UTF-8, otherwise the text of the range.
get_utf8_string(ptr, len) ==
  IF ptr + len > MemSize THEN None
  ELSE LET bytes == SubSeq(Memory, ptr + 1, ptr + len)
       IN  IF IsUtf8(bytes) THEN Some(bytes) ELSE None

\* Display of an unsigned integer: its decimal digits
RECURSIVE ToDec(_)
ToDec(n) == IF n < 10 THEN <<48 + n>> ELSE ToDec(n \div 10) \o <<48 + (n % 10)>>

\* impl fmt::Display for PanicInfo
Display(info) ==
  info.message \o
    (IF info.location.some
       THEN <<44, 32>> \o info.location.val.file \o <<58>>
            \o ToDec(info.location.val.line) \o <<58>>
            \o ToDec(info.location.val.column)
       ELSE <<>>)

\* println!("{}: {}", guard, string)
FormatCounted(n, string) == ToDec(n) \o <<58, 32>> \o string

\* ------------------------------------------------------------------ state
VARIABLES
  pc,           \* position of main
  i,            \* loop variable of main
  shared_data,  \* Arc<Mutex<usize>>: the value
  data_lock,    \* ... and the owner of its mutex
  panic_info,   \* Arc<Mutex<Option<PanicInfo>>>: the value
  pi_lock,      \* ... and the owner of its mutex
  stdout,       \* lines printed by the host
  call,         \* the instance.call in progress and its result
  g,            \* guest code position of every execution context
  hf,           \* host function invocation of every execution context
  SET_HOOK,     \* the guest's Once
  panic_hook,   \* the guest's process-wide panic hook
  panicking,    \* the std::panic::PanicInfo of the guest's latest panic
  set_hooks,    \* history: times the body of call_once has run
  hook_runs,    \* history: times hook has run
  host_panics,  \* number of panics raised inside host functions
  budget,       \* host calls an arbitrary guest may still make
  effects,      \* history: prints and counter updates, in order
  returned,     \* history: completed invocations of every host function
  epoch,        \* history: number of instance.call made so far
  pi_epoch      \* history: the epoch in which panic_info was last written

vars == <<pc, i, shared_data, data_lock, panic_info, pi_lock, stdout, call,
          g, hf, SET_HOOK, panic_hook, panicking, set_hooks, hook_runs,
          host_panics, budget, effects, returned, epoch, pi_epoch>>

HostFns == {"print_str", "print_str2", "increment_shared", "register_panic"}

driverVars == <<pc, i, call, epoch>>
cellVars == <<shared_data, data_lock>>
chanVars == <<panic_info, pi_lock, pi_epoch>>
guestVars == <<SET_HOOK, panic_hook, panicking, set_hooks, hook_runs>>
outVars == <<stdout, effects>>

NoFrame == [fn |-> "none"]
Idle == [fn |-> "idle", ip |-> 0]
NoCall == [export |-> "none", status |-> "none"]
NoPanic == [payload |-> [kind |-> "none", ptr |-> 0, len |-> 0], location |-> None]

Init ==
  /\ pc = "instantiate"
  /\ i = 0
  /\ shared_data = 0
  /\ data_lock = Free
  /\ panic_info = None
  /\ pi_lock = Free
  /\ stdout = <<>>
  /\ call = NoCall
  /\ g = [c \in Ctxs |-> Idle]
  /\ hf = [c \in Ctxs |-> NoFrame]
  /\ SET_HOOK = "new"
  /\ panic_hook = "default"
  /\ panicking = NoPanic
  /\ set_hooks = 0
  /\ hook_runs = 0
  /\ host_panics = 0
  /\ budget = MaxHostCalls
  /\ effects = <<>>
  /\ returned = [f \in HostFns |-> 0]
  /\ epoch = 0
  /\ pi_epoch = 0

\* ------------------------------------------------------- host functions
\* host functions that take their lock before they decode their arguments
StepsLockFirst(fn) ==
  CASE fn = "print_str" -> <<"decode", "print">>
    [] fn = "print_str2" -> <<"lock", "decode", "print", "unlock">>
    [] fn = "increment_shared" -> <<"lock", "load", "store", "unlock">>
    [] fn = "register_panic" ->
         <<"lock", "decode", "decode_file", "store", "unlock">>

\* The statements of each host function, in program order.
Steps(fn) ==
  CASE fn = "print_str" -> <<"decode", "print">>
    [] fn = "print_str2" -> <<"decode", "lock", "print", "unlock">>
    [] fn = "increment_shared" -> <<"lock", "load", "store", "unlock">>
    [] fn = "register_panic" ->
         <<"decode", "decode_file", "lock", "store", "unlock">>

\* the statement that follows the one a frame is at
StepAfter(frame) ==
  LET k == CHOOSE n \in DOMAIN Steps(frame.fn) : Steps(frame.fn)[n] = frame.step
  IN  Steps(frame.fn)[k + 1]

Frame(fn, args) ==
  [fn |-> fn, step |-> Steps(fn)[1],
   args |-> args, msg |-> <<>>, file |-> <<>>, tmp |-> 0]

\* Control goes back to the guest code that made the call.
Resume(c) ==
  IF g[c].fn \in {"hello_wasm", "fails"}
    THEN [g EXCEPT ![c].ip = @ + 1]
    ELSE g

Return(c) ==
  /\ hf' = [hf EXCEPT ![c] = NoFrame]
  /\ g' = Resume(c)
  /\ returned' = [returned EXCEPT ![hf[c].fn] = @ + 1]

\* Option::unwrap on None: the host function panics; the engine catches the
\* unwind at the import boundary and traps the guest call.
HostPanic(c) ==
  /\ hf' = [hf EXCEPT ![c] = NoFrame]
  /\ g' = [g EXCEPT ![c] = [fn |-> "trap", ip |-> 0]]
  /\ host_panics' = host_panics + 1
  /\ returned' = returned

PlainLine(string) == [tmpl |-> "{}", call |-> -1, text |-> string]

\* a guard that is never dropped: its owner keeps the lock
ForgetGuard(owner) == owner

\* The MutexGuard goes out of scope: the owner of the lock afterwards.
DropGuard(owner) == Free

\* a lock that excludes nobody
CanLockAlways(lock, c) == TRUE

\* Mutex::lock can be taken by c
CanLock(lock, c) == lock = Free

print_str(c) ==
  /\ hf[c].fn = "print_str"
  /\ CASE hf[c].step = "decode" ->
            LET string == get_utf8_string(hf[c].args[1], hf[c].args[2])
            IN  /\ IF string.some
                     THEN /\ hf' = [hf EXCEPT ![c].step = StepAfter(hf[c]), ![c].msg = string.val]
                          /\ UNCHANGED <<g, host_panics, returned>>
                     ELSE HostPanic(c)
                /\ UNCHANGED outVars
       [] hf[c].step = "print" ->
            /\ stdout' = Append(stdout, PlainLine(hf[c].msg))
            /\ effects' = Append(effects, [ev |-> "print", text |-> hf[c].msg])
            /\ Return(c)
            /\ UNCHANGED host_panics
  /\ UNCHANGED <<driverVars, cellVars, chanVars, guestVars, budget>>

print_str2(c) ==
  /\ hf[c].fn = "print_str2"
  /\ CASE hf[c].step = "decode" ->
            LET string == get_utf8_string(hf[c].args[1], hf[c].args[2])
            IN  /\ IF string.some
                     THEN /\ hf' = [hf EXCEPT ![c].step = StepAfter(hf[c]), ![c].msg = string.val]
                          /\ UNCHANGED <<g, host_panics, returned>>
                     ELSE HostPanic(c)
                /\ UNCHANGED <<outVars, data_lock>>
       [] hf[c].step = "lock" ->
            /\ CanLock(data_lock, c)
            /\ data_lock' = c
            /\ hf' = [hf EXCEPT ![c].step = StepAfter(hf[c])]
            /\ UNCHANGED <<outVars, g, host_panics, returned>>
       [] hf[c].step = "print" ->
            LET line == FormatCounted(shared_data, hf[c].msg)
            IN  /\ stdout' = Append(stdout, PlainLine(line))
                /\ effects' = Append(effects, [ev |-> "print", text |-> line])
                /\ hf' = [hf EXCEPT ![c].step = StepAfter(hf[c]), ![c].tmp = shared_data]
                /\ UNCHANGED <<g, host_panics, returned, data_lock>>
       [] hf[c].step = "unlock" ->
            /\ data_lock' = DropGuard(c)
            /\ Return(c)
            /\ UNCHANGED <<outVars, host_panics>>
  /\ UNCHANGED <<driverVars, shared_data, chanVars, guestVars, budget>>

\* a counter that counts down
SubOne(n) == n - 1

\* *guard += 1
AddOne(n) == n + 1

increment_shared(c) ==
  /\ hf[c].fn = "increment_shared"
  /\ CASE hf[c].step = "lock" ->
            /\ CanLock(data_lock, c)
            /\ data_lock' = c
            /\ hf' = [hf EXCEPT ![c].step = StepAfter(hf[c])]
            /\ UNCHANGED <<g, returned, shared_data, effects>>
       [] hf[c].step = "load" ->
            /\ hf' = [hf EXCEPT ![c].step = StepAfter(hf[c]), ![c].tmp = shared_data]
            /\ UNCHANGED <<g, returned, shared_data, data_lock, effects>>
       [] hf[c].step = "store" ->
            /\ shared_data' = AddOne(hf[c].tmp)
            /\ effects' = Append(effects,
                                 [ev |-> "counter", value |-> AddOne(hf[c].tmp)])
            /\ hf' = [hf EXCEPT ![c].step = StepAfter(hf[c])]
            /\ UNCHANGED <<g, returned, data_lock>>
       [] hf[c].step = "unlock" ->
            /\ data_lock' = DropGuard(c)
            /\ Return(c)
            /\ UNCHANGED <<shared_data, effects>>
  /\ UNCHANGED <<driverVars, chanVars, guestVars, budget, stdout, host_panics>>

\* The PanicInfo that register_panic builds from its decoded arguments.
MakePanicInfo(err_msg, file, loc_line, loc_column) ==
  [message |-> err_msg,
   location |-> Some([file |-> file, line |-> loc_line, column |-> loc_column])]

\* a store that keeps a record that is already pending
KeepFirst(slot, info) == IF slot.some THEN slot ELSE Some(info)

\* (*pi.lock().unwrap()) = Some(panic_info): the slot after the assignment
Overwrite(slot, info) == Some(info)

register_panic(c) ==
  /\ hf[c].fn = "register_panic"
  /\ CASE hf[c].step = "decode" ->
            LET err_msg == get_utf8_string(hf[c].args[1], hf[c].args[2])
            IN  /\ IF err_msg.some
                     THEN /\ hf' = [hf EXCEPT ![c].step = StepAfter(hf[c]), ![c].msg = err_msg.val]
                          /\ UNCHANGED <<g, host_panics, returned>>
                     ELSE HostPanic(c)
                /\ UNCHANGED chanVars
       [] hf[c].step = "decode_file" ->
            LET file == get_utf8_string(hf[c].args[3], hf[c].args[4])
            IN  /\ IF file.some
                     THEN /\ hf' = [hf EXCEPT ![c].step = StepAfter(hf[c]), ![c].file = file.val]
                          /\ UNCHANGED <<g, host_panics, returned>>
                     ELSE HostPanic(c)
                /\ UNCHANGED chanVars
       [] hf[c].step = "lock" ->
            /\ CanLock(pi_lock, c)
            /\ pi_lock' = c
            /\ hf' = [hf EXCEPT ![c].step = StepAfter(hf[c])]
            /\ UNCHANGED <<g, host_panics, returned, panic_info, pi_epoch>>
       [] hf[c].step = "store" ->
            /\ panic_info' = Overwrite(panic_info,
                                      MakePanicInfo(hf[c].msg, hf[c].file,
                                                    hf[c].args[5], hf[c].args[6]))
            /\ pi_epoch' = epoch
            /\ hf' = [hf EXCEPT ![c].step = StepAfter(hf[c])]
            /\ UNCHANGED <<g, host_panics, returned, pi_lock>>
       [] hf[c].step = "unlock" ->
            /\ pi_lock' = DropGuard(c)
            /\ Return(c)
            /\ UNCHANGED <<host_panics, panic_info, pi_epoch>>
  /\ UNCHANGED <<driverVars, cellVars, guestVars, budget, outVars>>

\* ------------------------------------------------------------ sample guest
\* hello_wasm as it would be with its last two host calls exchanged
HelloCodeSwapped ==
  << Frame("print_str", <<HelloPtr, Len(HELLO)>>),
     Frame("print_str2", <<HelloPtr, Len(HELLO)>>),
     Frame("increment_shared", <<>>),
     Frame("print_str2", <<HelloPtr, Len(HELLO)>>),
     Frame("increment_shared", <<>>) >>

\* hello_wasm as it would be if it also registered a panic
HelloCodeRegisters ==
  << Frame("print_str", <<HelloPtr, Len(HELLO)>>),
     Frame("print_str2", <<HelloPtr, Len(HELLO)>>),
     Frame("increment_shared", <<>>),
     Frame("increment_shared", <<>>),
     Frame("print_str2", <<HelloPtr, Len(HELLO)>>),
     Frame("register_panic", <<HelloPtr, Len(HELLO), 0, 0, 0, 0>>) >>

\* The host calls of hello_wasm, in program order.
HelloCode ==
  << Frame("print_str", <<HelloPtr, Len(HELLO)>>),
     Frame("print_str2", <<HelloPtr, Len(HELLO)>>),
     Frame("increment_shared", <<>>),
     Frame("increment_shared", <<>>),
     Frame("print_str2", <<HelloPtr, Len(HELLO)>>) >>

\* The std::panic::PanicInfo of panic!("oh no") in fails
FailsPanic ==
  [payload |-> [kind |-> "str", ptr |-> OhNoPtr, len |-> Len(OhNo)],
   location |-> Some([ptr |-> FilePtr, len |-> Len(PanicFile),
                      line |-> PanicLine, column |-> PanicColumn])]

\* "".as_ptr(): the address of an empty string, inside the static data
EmptyStrPtr == DataBase

\* hook as it would be without the downcast to String
HookArgsStrOnly(info) ==
  LET textual == info.payload.kind = "str"
      msg_ptr == IF textual THEN info.payload.ptr ELSE EmptyStrPtr
      msg_len == IF textual THEN info.payload.len ELSE 0
  IN  IF info.location.some
        THEN <<msg_ptr, msg_len, info.location.val.ptr, info.location.val.len,
               info.location.val.line, info.location.val.column>>
        ELSE <<msg_ptr, msg_len, 0, 0, 0, 0>>

\* hook as it would be if it dropped the location it was given
HookArgsNoLocation(info) ==
  <<info.payload.ptr, info.payload.len, 0, 0, 0, 0>>

\* The arguments hook passes to register_panic for a given PanicInfo.
HookArgs(info) ==
  LET textual == info.payload.kind \in {"String", "str"}
      msg_ptr == IF textual THEN info.payload.ptr ELSE EmptyStrPtr
      msg_len == IF textual THEN info.payload.len ELSE 0
  IN  IF info.location.some
        THEN <<msg_ptr, msg_len, info.location.val.ptr, info.location.val.len,
               info.location.val.line, info.location.val.column>>
        ELSE <<msg_ptr, msg_len, 0, 0, 0, 0>>

\* The engine enters the export on the guest's main context.
GuestEnter ==
  /\ call.status = "running"
  /\ g[0] = Idle
  /\ g' = [g EXCEPT ![0] = [fn |-> call.export, ip |-> 1]]
  /\ UNCHANGED <<driverVars, cellVars, chanVars, guestVars, outVars, hf,
                 host_panics, budget, returned>>

hello_wasm(c) ==
  /\ g[c].fn = "hello_wasm"
  /\ hf[c] = NoFrame
  /\ IF g[c].ip <= Len(HelloCode)
       THEN /\ hf' = [hf EXCEPT ![c] = HelloCode[g[c].ip]]
            /\ g' = g
       ELSE /\ g' = [g EXCEPT ![c] = [fn |-> "ret", ip |-> 0]]
            /\ hf' = hf
  /\ UNCHANGED <<driverVars, cellVars, chanVars, guestVars, outVars,
                 host_panics, budget, returned>>

\* a guard that lets the body run on every call
OnceRunsAlways(once) == TRUE

\* Once::call_once runs its closure only on the first call
OnceRuns(once) == once = "new"

\* SET_HOOK.call_once(|| set_hook(Box::new(hook)))
register_panic_hook(c) ==
  /\ g[c].fn = "fails"
  /\ g[c].ip = 1
  /\ IF OnceRuns(SET_HOOK)
       THEN /\ SET_HOOK' = "done"
            /\ panic_hook' = "hook"
            /\ set_hooks' = set_hooks + 1
            /\ UNCHANGED <<panicking, hook_runs>>
       ELSE UNCHANGED guestVars
  /\ g' = [g EXCEPT ![c].ip = 2]
  /\ UNCHANGED <<driverVars, cellVars, chanVars, outVars, hf, host_panics, budget, returned>>

\* a panic runtime that aborts without running the hook
AfterPanicAbort(installed) == 4

\* Where a panic goes: to the installed hook (3), or with the default hook
\* straight to the abort (4).
AfterPanic(installed) == IF installed = "hook" THEN 3 ELSE 4

\* panic!("oh no"): the panic runtime runs the installed hook, then aborts.
fails(c) ==
  /\ g[c].fn = "fails"
  /\ hf[c] = NoFrame
  /\ CASE g[c].ip = 2 ->
            /\ g' = [g EXCEPT ![c].ip = AfterPanic(panic_hook)]
            /\ panicking' = FailsPanic
       [] g[c].ip = 4 ->
            /\ g' = [g EXCEPT ![c] = [fn |-> "trap", ip |-> 0]]
            /\ panicking' = panicking
       [] OTHER -> FALSE
  /\ UNCHANGED <<driverVars, cellVars, chanVars, SET_HOOK, panic_hook, set_hooks,
                 hook_runs, outVars, hf, host_panics, budget, returned>>

hook(c) ==
  /\ g[c].fn = "fails"
  /\ g[c].ip = 3
  /\ hf[c] = NoFrame
  /\ hf' = [hf EXCEPT ![c] = Frame("register_panic", HookArgs(panicking))]
  /\ hook_runs' = hook_runs + 1
  /\ UNCHANGED <<driverVars, cellVars, chanVars, SET_HOOK, panic_hook, panicking,
                 set_hooks, outVars, g, host_panics, budget, returned>>

\* The PanicInfo values the panic runtime can hand to hook: the payload is a
\* &'static str, a String (here with the text "Hello, World!") or a value of
\* another type (here the three bytes at BinaryPtr); the location is
\* present or absent.
PanicPayloads ==
  { [kind |-> "str", ptr |-> OhNoPtr, len |-> Len(OhNo)],
    [kind |-> "String", ptr |-> HelloPtr, len |-> Len(HELLO)],
    [kind |-> "other", ptr |-> BinaryPtr, len |-> Len(Binary)] }
PanicLocations ==
  { None,
    Some([ptr |-> FilePtr, len |-> Len(PanicFile),
          line |-> PanicLine, column |-> PanicColumn]) }
PanicInfos == [payload : PanicPayloads, location : PanicLocations]

\* fails with any panic in place of panic!("oh no")
fails_with(c) ==
  /\ g[c].fn = "fails"
  /\ hf[c] = NoFrame
  /\ CASE g[c].ip = 2 ->
            /\ g' = [g EXCEPT ![c].ip = AfterPanic(panic_hook)]
            /\ panicking' \in PanicInfos
       [] g[c].ip = 4 ->
            /\ g' = [g EXCEPT ![c] = [fn |-> "trap", ip |-> 0]]
            /\ panicking' = panicking
       [] OTHER -> FALSE
  /\ UNCHANGED <<driverVars, cellVars, chanVars, SET_HOOK, panic_hook, set_hooks,
                 hook_runs, outVars, hf, host_panics, budget, returned>>

\* ------------------------------------------------------------------ engine
\* instance.call returns once no callback is running: Err when a context
\* trapped, Ok when the export returned.
EngineReturn ==
  /\ call.status = "running"
  /\ \A c \in Ctxs : hf[c] = NoFrame
  /\ \/ \E c \in Ctxs : g[c].fn = "trap"
     \/ g[0].fn = "ret"
  /\ call' = [call EXCEPT !.status =
                 IF \E c \in Ctxs : g[c].fn = "trap" THEN "err" ELSE "ok"]
  /\ g' = [c \in Ctxs |-> Idle]
  /\ UNCHANGED <<pc, i, epoch, cellVars, chanVars, guestVars, outVars, hf,
                 host_panics, budget, returned>>

\* -------------------------------------------------------------------- main
\* a report that takes the two arms of the match the other way round
ReportSwapped(n, slot) ==
  IF slot.some
    THEN [tmpl |-> "failed to capture", call |-> n, text |-> <<>>]
    ELSE [tmpl |-> "captured", call |-> n, text |-> <<>>]

Report(n, slot) ==
  IF slot.some
    THEN [tmpl |-> "captured", call |-> n, text |-> Display(slot.val)]
    ELSE [tmpl |-> "failed to capture", call |-> n, text |-> <<>>]

\* a reset that leaves the pending record in place
ResetValueStale == panic_info

\* the statement that resets the channel before a call: the value it stores
ResetValue == None

\* a read that empties the slot
AfterReadTake(slot) == None

\* the channel after the driver has read it
AfterRead(slot) == slot

\* instance.call("hello_wasm", &[])?
AfterHello(status) == IF status = "ok" THEN "loop" ELSE "exit_err"

\* the match as it would be if the error were propagated with `?`
AfterFailsPropagate(status) == IF status = "ok" THEN "panicked" ELSE "exit_err"

\* match instance.call("fails", &[]) { Ok(_) => panic!(..), Err(_) => .. }
AfterFails(status) == IF status = "ok" THEN "panicked" ELSE "read_lock"

\* a reset whose guard lives on across instance.call
AfterResetKeepsGuard == "call_fails"

\* The guard of the reset is a temporary of its statement: the driver's next
\* step after the store drops it, before instance.call.
AfterReset == "reset_unlock"

main ==
  /\ CASE pc = "instantiate" ->
            /\ pc' = "call_hello"
            /\ UNCHANGED <<i, call, epoch, chanVars, stdout>>
       [] pc = "call_hello" ->
            /\ call' = [export |-> "hello_wasm", status |-> "running"]
            /\ epoch' = epoch + 1
            /\ pc' = "hello_wait"
            /\ UNCHANGED <<i, chanVars, stdout>>
       [] pc = "hello_wait" ->
            /\ call.status \in {"ok", "err"}
            /\ pc' = AfterHello(call.status)
            /\ UNCHANGED <<i, call, epoch, chanVars, stdout>>
       [] pc = "loop" ->
            /\ pc' = IF i < NumAttempts THEN "reset_lock" ELSE "done"
            /\ UNCHANGED <<i, call, epoch, chanVars, stdout>>
       [] pc = "reset_lock" ->
            /\ CanLock(pi_lock, Driver)
            /\ pi_lock' = Driver
            /\ pc' = "reset_store"
            /\ UNCHANGED <<i, call, epoch, panic_info, pi_epoch, stdout>>
       [] pc = "reset_store" ->
            /\ panic_info' = ResetValue
            /\ pc' = AfterReset
            /\ UNCHANGED <<i, call, epoch, pi_lock, pi_epoch, stdout>>
       [] pc = "reset_unlock" ->
            /\ pi_lock' = DropGuard(Driver)
            /\ pc' = "call_fails"
            /\ UNCHANGED <<i, call, epoch, panic_info, pi_epoch, stdout>>
       [] pc = "call_fails" ->
            /\ call' = [export |-> "fails", status |-> "running"]
            /\ epoch' = epoch + 1
            /\ pc' = "fails_wait"
            /\ UNCHANGED <<i, chanVars, stdout>>
       [] pc = "fails_wait" ->
            /\ call.status \in {"ok", "err"}
            /\ pc' = AfterFails(call.status)
            /\ UNCHANGED <<i, call, epoch, chanVars, stdout>>
       [] pc = "read_lock" ->
            /\ CanLock(pi_lock, Driver)
            /\ pi_lock' = Driver
            /\ pc' = "report"
            /\ UNCHANGED <<i, call, epoch, panic_info, pi_epoch, stdout>>
       [] pc = "report" ->
            /\ stdout' = Append(stdout, Report(i, panic_info))
            /\ panic_info' = AfterRead(panic_info)
            /\ pc' = "read_unlock"
            /\ UNCHANGED <<i, call, epoch, pi_lock, pi_epoch>>
       [] pc = "read_unlock" ->
            /\ pi_lock' = DropGuard(Driver)
            /\ i' = i + 1
            /\ pc' = "loop"
            /\ UNCHANGED <<call, epoch, panic_info, pi_epoch, stdout>>
       [] OTHER -> FALSE
  /\ UNCHANGED <<cellVars, guestVars, g, hf, host_panics, budget, effects, returned>>

\* the callback running on context c takes its next step
HostCall(c) ==
  \/ print_str(c)
  \/ print_str2(c)
  \/ increment_shared(c)
  \/ register_panic(c)

HostStep == \E c \in Ctxs : HostCall(c)

SampleGuest ==
  \/ GuestEnter
  \/ \E c \in Ctxs : hello_wasm(c) \/ register_panic_hook(c) \/ fails(c) \/ hook(c)

\* The program as shipped: the driver running the sample guest module.
Next == main \/ EngineReturn \/ HostStep \/ SampleGuest

Spec == Init /\ [][Next]_vars

\* The sample guest with hook applied to every PanicInfo it can be given.
HookGuest ==
  \/ GuestEnter
  \/ \E c \in Ctxs : hello_wasm(c) \/ register_panic_hook(c) \/ fails_with(c) \/ hook(c)

NextHook == main \/ EngineReturn \/ HostStep \/ HookGuest

SpecHook == Init /\ [][NextHook]_vars

\* ---------------------------------------------------------- arbitrary guest
\* A guest other than the sample module: during an export it may call any
\* import, from any of its contexts, with any scalar arguments, and then
\* return or trap.
OutOfBounds == <<MemSize - 1, 2>>
NotUtf8 == <<BinaryPtr + 2, 1>>
PrintRanges == { <<HelloPtr, Len(HELLO)>>, OutOfBounds, NotUtf8 }
PanicArgs ==
  { <<OhNoPtr, Len(OhNo), FilePtr, Len(PanicFile), PanicLine, PanicColumn>>,
    <<OhNoPtr, Len(OhNo), 0, 0, 0, 0>>,
    <<OutOfBounds[1], OutOfBounds[2], FilePtr, Len(PanicFile), PanicLine, PanicColumn>>,
    <<OhNoPtr, Len(OhNo), NotUtf8[1], NotUtf8[2], PanicLine, PanicColumn>> }

AnyFrames ==
  { Frame("print_str", r) : r \in PrintRanges }
    \cup { Frame("print_str2", r) : r \in PrintRanges }
    \cup { Frame("increment_shared", <<>>) }
    \cup { Frame("register_panic", a) : a \in PanicArgs }

AnyGuestCall(c) ==
  /\ call.status = "running"
  /\ g[c] = Idle
  /\ hf[c] = NoFrame
  /\ budget > 0
  /\ \E f \in AnyFrames : hf' = [hf EXCEPT ![c] = f]
  /\ budget' = budget - 1
  /\ UNCHANGED <<driverVars, cellVars, chanVars, guestVars, outVars, g, host_panics, returned>>

AnyGuestFinish ==
  /\ call.status = "running"
  /\ g[0] = Idle
  /\ hf[0] = NoFrame
  /\ \E r \in {"ret", "trap"} : g' = [g EXCEPT ![0] = [fn |-> r, ip |-> 0]]
  /\ UNCHANGED <<driverVars, cellVars, chanVars, guestVars, outVars, hf,
                 host_panics, budget, returned>>

AnyGuest == AnyGuestFinish \/ \E c \in Ctxs : AnyGuestCall(c)

\* The host side of the program driven by an arbitrary guest.
NextAny == main \/ EngineReturn \/ HostStep \/ AnyGuest

SpecAny == Init /\ [][NextAny]_vars

\* main is a sequential program on its own thread: it takes its next step
\* whenever it has one.
FairSpecAny == SpecAny /\ WF_vars(main)

\* ================================================================== claims
ReportLines == { k \in DOMAIN stdout : stdout[k].call >= 0 }
LinesOf(n) == { k \in DOMAIN stdout : stdout[k].call = n }
Last(seq) == seq[Len(seq)]
IsPrefix(s, t) == Len(s) <= Len(t) /\ s = SubSeq(t, 1, Len(s))

\* C1: running the sample guest, each of the four calls to `fails` returns
\* an engine-level failure, and once it has returned the channel holds a
\* record with message "oh no" and a present location whose file is not
\* empty and whose line and column are positive; the driver ends having
\* made all four attempts.
C1_FourFailuresCaptured ==
  /\ pc # "panicked"
  /\ pc \in {"read_lock", "report", "read_unlock"} =>
       /\ call = [export |-> "fails", status |-> "err"]
       /\ panic_info.some
       /\ panic_info.val.message = <<111, 104, 32, 110, 111>>
       /\ panic_info.val.location.some
       /\ panic_info.val.location.val.file # <<>>
       /\ panic_info.val.location.val.line > 0
       /\ panic_info.val.location.val.column > 0
  /\ pc = "done" =>
       /\ i = 4
       /\ \A n \in 0 .. 3 :
            \E k \in LinesOf(n) : stdout[k].tmpl = "captured"

C1_Witness ==
  /\ pc = "report"
  /\ i = 3
  /\ call.status = "err"
  /\ panic_info.some
  /\ Cardinality(ReportLines) = 3

\* "Hello, World!"
HelloText == <<72, 101, 108, 108, 111, 44, 32, 87, 111, 114, 108, 100, 33>>

\* the host-side effects of one hello_wasm call, in order
HelloEffects ==
  << [ev |-> "print", text |-> HelloText],
     [ev |-> "print", text |-> <<48, 58, 32>> \o HelloText],
     [ev |-> "counter", value |-> 1],
     [ev |-> "counter", value |-> 2],
     [ev |-> "print", text |-> <<50, 58, 32>> \o HelloText] >>

\* C2: running the sample guest with the counter at 0, the call to
\* hello_wasm succeeds and its host-side effects are, in this order: print
\* "Hello, World!", print "0: Hello, World!", counter becomes 1, counter
\* becomes 2, print "2: Hello, World!" -- no more, no fewer.
C2_HelloEffectsInOrder ==
  /\ IsPrefix(effects, HelloEffects)
  /\ call.export = "hello_wasm" => call.status # "err"
  /\ pc # "exit_err"
  /\ (call.export = "hello_wasm" /\ call.status = "ok") =>
       /\ effects = HelloEffects
       /\ shared_data = 2
  /\ pc \notin {"instantiate", "call_hello", "hello_wait"} => effects = HelloEffects

C2_Witness ==
  /\ pc = "hello_wait"
  /\ call = [export |-> "hello_wasm", status |-> "ok"]
  /\ Len(effects) = 5
  /\ Len(stdout) = 3

\* C3: when register_panic is invoked with file_ptr = 0 and file_len = 0,
\* the record it stores has its location absent.
C3_SentinelDecodesToAbsent ==
  \A c \in Ctxs :
    (/\ hf[c].fn = "register_panic"
     /\ hf[c].step = "unlock"
     /\ hf[c].args[3] = 0
     /\ hf[c].args[4] = 0)
      => (panic_info.some /\ ~panic_info.val.location.some)

\* C4: whenever the driver is about to invoke a guest export the channel is
\* empty, and a record the driver reads after a failed call was written
\* during that same call.
C4_ChannelEmptyAtCall ==
  /\ pc \in {"call_hello", "call_fails"} => panic_info = None
  /\ (pc \in {"read_lock", "report", "read_unlock"} /\ panic_info.some) =>
       pi_epoch = epoch

C4_Witness ==
  /\ pc = "report"
  /\ i >= 1
  /\ panic_info.some
  /\ \E k \in ReportLines : stdout[k].tmpl = "captured"

\* C5 as stated: once the driver has read the channel the slot is empty.
C5_ReadIsTake ==
  pc = "read_unlock" => panic_info = None

\* C5 amended: the driver's read does not clear the slot. It reports the
\* record that was set exactly once for the attempt and leaves it in the
\* slot, where it stays until the reset before the next call empties it.
C5_ReadLeavesRecord ==
  /\ pc = "read_unlock" =>
       /\ panic_info.some
       /\ Last(stdout) = [tmpl |-> "captured", call |-> i,
                          text |-> Display(panic_info.val)]
       /\ Cardinality(LinesOf(i)) = 1
  /\ (i > 0 /\ pc \in {"loop", "reset_lock", "reset_store", "done"}) =>
       panic_info.some
  /\ pc \in {"reset_unlock", "call_fails"} => panic_info = None

C5_Witness ==
  /\ pc = "reset_store"
  /\ i = 1
  /\ panic_info.some
  /\ Cardinality(LinesOf(0)) = 1

NoIncrementInFlight == \A c \in Ctxs : hf[c].fn # "increment_shared"

\* C6: whatever the interleaving of the contexts, once every invocation of
\* increment_shared has returned the counter equals its initial value 0
\* plus the number of invocations, and a print_str2 that then holds the
\* counter reads that value.
C6_NoLostUpdate ==
  /\ NoIncrementInFlight => shared_data = returned["increment_shared"]
  /\ shared_data = returned["increment_shared"]
       + Cardinality({c \in Ctxs : hf[c].fn = "increment_shared" /\ hf[c].step = "unlock"})
  /\ \A c \in Ctxs :
       (hf[c].fn = "print_str2" /\ hf[c].step = "unlock" /\ NoIncrementInFlight)
         => hf[c].tmp = returned["increment_shared"]

C6_Witness ==
  /\ returned["increment_shared"] = 2
  /\ NoIncrementInFlight
  /\ shared_data = 2
  /\ call.status = "running"

\* C7: a pointer and length range that lies outside guest memory or is not
\* UTF-8 never makes a host function panic.
C7_DecodeFailureNeverPanics ==
  host_panics = 0

\* C8: for every attempt on `fails` that failed the driver prints exactly
\* one report, the captured diagnostic if and only if the channel holds a
\* record when it is read and the "failed to capture" report if and only
\* if it is empty; the text of a captured report is that of the record.
C8_OneReportPerAttempt ==
  /\ pc = "read_unlock" =>
       /\ Last(stdout).call = i
       /\ Last(stdout).tmpl = "captured" <=> panic_info.some
       /\ Last(stdout).tmpl = "failed to capture" <=> ~panic_info.some
       /\ panic_info.some =>
            IsPrefix(panic_info.val.message, Last(stdout).text)
  /\ \A n \in 0 .. 3 :
       /\ Cardinality(LinesOf(n)) <= 1
       /\ n < i => Cardinality(LinesOf(n)) = 1
       /\ n > i => LinesOf(n) = {}
  /\ \A k \in ReportLines : stdout[k].tmpl \in {"captured", "failed to capture"}

C8_Witness ==
  /\ pc = "read_unlock"
  /\ \E k \in ReportLines : stdout[k].tmpl = "captured"
  /\ \E k \in ReportLines : stdout[k].tmpl = "failed to capture"

\* C10: running the sample guest, the channel is still empty when the call
\* to hello_wasm has completed without failing: no register_panic ran.
C10_HelloLeavesChannelEmpty ==
  (call.export = "hello_wasm" /\ call.status = "ok") =>
     /\ panic_info = None
     /\ returned["register_panic"] = 0
     /\ pi_epoch = 0

C10_Witness ==
  /\ pc = "loop"
  /\ call = [export |-> "hello_wasm", status |-> "ok"]
  /\ returned["print_str2"] = 2

\* C9: a failed call to `fails` never ends the driver's loop: whether or
\* not attempt k left a record, once it has returned its failure the driver
\* reaches attempt k + 1, and after the last attempt it terminates normally.
C9_FailedAttemptContinues ==
  \A k \in 0 .. 3 :
    [](  (pc = "fails_wait" /\ i = k /\ call.status = "err")
      => <>(i = k + 1 /\ pc = (IF k < 3 THEN "call_fails" ELSE "done")) )

C9_Witness ==
  /\ pc = "done"
  /\ i = 4
  /\ \E k \in ReportLines : stdout[k].tmpl = "captured"
  /\ \E k \in ReportLines : stdout[k].tmpl = "failed to capture"

Owners == Ctxs \cup {Driver}
NoCallback == \A c \in Ctxs : hf[c] = NoFrame

\* C11: a host function that has returned holds no lock: a context that is
\* running guest code owns neither the counter lock nor the channel lock,
\* and while an export runs with no callback active both locks are free.
C11_LocksReleasedOnReturn ==
  /\ \A c \in Ctxs : hf[c] = NoFrame => (data_lock # c /\ pi_lock # c)
  /\ (call.status = "running" /\ NoCallback) =>
       (data_lock = Free /\ pi_lock = Free)

C11_Witness ==
  /\ call.status = "running"
  /\ NoCallback
  /\ returned["increment_shared"] = 1
  /\ returned["register_panic"] = 1
  /\ data_lock = Free
  /\ pi_lock = Free

\* C12: no execution context, neither a host function invocation nor the
\* driver, owns the counter lock and the channel lock at the same time.
C12_NeverBothLocks ==
  \A o \in Owners : ~(data_lock = o /\ pi_lock = o)

C12_Witness ==
  /\ data_lock \in Ctxs
  /\ pi_lock \in Ctxs
  /\ data_lock # pi_lock

\* the record a register_panic invocation was asked to store
RecordOf(c) ==
  [message |-> hf[c].msg,
   location |-> [some |-> TRUE,
                 val |-> [file |-> hf[c].file, line |-> hf[c].args[5],
                          column |-> hf[c].args[6]]]]

Storing(c) == hf[c].fn = "register_panic" /\ hf[c].step = "store"

\* C13: the channel holds no record or one record, every register_panic
\* that stores puts its own record into the slot whatever was pending, and
\* the slot changes in no other way except through the driver's reset: so
\* the slot always holds the record of the invocation that wrote last.
C13_LastWriteWins ==
  /\ [](panic_info = None \/ panic_info = [some |-> TRUE, val |-> panic_info.val])
  /\ [][ /\ \A c \in Ctxs :
              (Storing(c) /\ hf'[c] # hf[c]) =>
                 panic_info' = [some |-> TRUE, val |-> RecordOf(c)]
         /\ panic_info' # panic_info =>
              \/ pc = "reset_store" /\ panic_info' = None
              \/ \E c \in Ctxs : Storing(c) /\ hf'[c] # hf[c] ]_vars

C13_Witness ==
  /\ pc = "hello_wait"
  /\ returned["register_panic"] = 1
  /\ \E c \in Ctxs :
       /\ hf[c].fn = "register_panic"
       /\ hf[c].step = "unlock"
       /\ panic_info = [some |-> TRUE, val |-> RecordOf(c)]
       /\ hf[c].file = <<>>

\* C14: over the four calls to `fails`, each of which calls
\* register_panic_hook, the body that registers the hook runs at most once,
\* and once the hook is installed it stays installed.
C14_HookInstalledOnce ==
  /\ [](/\ set_hooks <= 1
        /\ SET_HOOK = "done" <=> set_hooks = 1
        /\ panic_hook = "hook" <=> set_hooks = 1)
  /\ [][panic_hook = "hook" => panic_hook' = "hook"]_vars
  /\ [][SET_HOOK = "done" => SET_HOOK' = "done"]_vars

C14_Witness ==
  /\ i = 3
  /\ g[0] = [fn |-> "fails", ip |-> 2]
  /\ set_hooks = 1
  /\ panic_hook = "hook"

\* number of calls to `fails` the driver has made
FailsCalls == IF epoch = 0 THEN 0 ELSE epoch - 1

\* C15: for every call to `fails` the hook runs exactly once and invokes
\* register_panic exactly once, and when the engine returns the failure of
\* that call the invocation has completed and its record is in the channel.
C15_HookOncePerFailure ==
  /\ returned["register_panic"] <= hook_runs
  /\ hook_runs <= returned["register_panic"] + 1
  /\ hook_runs <= FailsCalls
  /\ (call.export = "fails" /\ call.status = "running") =>
       hook_runs \in {FailsCalls - 1, FailsCalls}
  /\ (call.export = "fails" /\ call.status = "err") =>
       /\ hook_runs = FailsCalls
       /\ returned["register_panic"] = FailsCalls
  /\ (pc = "fails_wait" /\ call.status = "err") =>
       /\ panic_info.some
       /\ pi_epoch = epoch

C15_Witness ==
  /\ pc = "fails_wait"
  /\ call = [export |-> "fails", status |-> "err"]
  /\ i = 3
  /\ hook_runs = 4
  /\ returned["register_panic"] = 4

Textual(payload) == payload.kind \in {"String", "str"}
TextAt(ptr, len) == SubSeq(Memory, ptr + 1, ptr + len)

\* C16: the message hook passes to register_panic is the text of the panic
\* payload when the payload is a String or a &'static str and has length 0
\* for a payload of any other type, and in every case hook invokes
\* register_panic, which stores a record with that message.
C16_HookMessage ==
  /\ \A c \in Ctxs :
       (g[c].fn = "fails" /\ hf[c].fn = "register_panic") =>
          IF Textual(panicking.payload)
            THEN /\ hf[c].args[1] = panicking.payload.ptr
                 /\ hf[c].args[2] = panicking.payload.len
            ELSE hf[c].args[2] = 0
  /\ (pc = "fails_wait" /\ call.status = "err") =>
       /\ hook_runs = FailsCalls
       /\ returned["register_panic"] = FailsCalls
       /\ panic_info.some
       /\ pi_epoch = epoch
       /\ panic_info.val.message =
            (IF Textual(panicking.payload)
               THEN TextAt(panicking.payload.ptr, panicking.payload.len)
               ELSE <<>>)

C16_Witness ==
  /\ pc = "fails_wait"
  /\ call.status = "err"
  /\ panicking.payload.kind = "other"
  /\ panic_info.some
  /\ panic_info.val.message = <<>>
  /\ \E k \in ReportLines :
       /\ stdout[k].tmpl = "captured"
       /\ IsPrefix(HelloText, stdout[k].text)

\* the callback on context c is at its Mutex::lock
Waiting(c) ==
  /\ hf[c].fn \in {"print_str2", "increment_shared", "register_panic"}
  /\ hf[c].step = "lock"

\* the owner of the lock the callback on context c takes
LockWanted(c) == IF hf[c].fn = "register_panic" THEN pi_lock ELSE data_lock

Decoding(c) ==
  /\ hf[c].fn \in {"print_str2", "register_panic"}
  /\ hf[c].step \in {"decode", "decode_file"}

\* the decode the callback on context c is at fails
DecodeFails(c) ==
  IF hf[c].step = "decode"
    THEN ~get_utf8_string(hf[c].args[1], hf[c].args[2]).some
    ELSE ~get_utf8_string(hf[c].args[3], hf[c].args[4]).some

\* C18: print_str2 and register_panic decode before they lock: a callback
\* that is at a decode owns no lock, and its step there, a failure
\* included, leaves the counter, the channel and both locks as they are;
\* a register_panic that is at or past its lock has decoded both its
\* message and its file, and they are the strings it carries.
C18_DecodeBeforeLock ==
  /\ [](\A c \in Ctxs : Decoding(c) => (data_lock # c /\ pi_lock # c))
  /\ [](\A c \in Ctxs :
          (hf[c].fn = "register_panic"
             /\ hf[c].step \in {"lock", "store", "unlock"}) =>
            /\ get_utf8_string(hf[c].args[1], hf[c].args[2]) = Some(hf[c].msg)
            /\ get_utf8_string(hf[c].args[3], hf[c].args[4]) = Some(hf[c].file))
  /\ [][\A c \in Ctxs :
          (Decoding(c) /\ hf'[c] # hf[c]) =>
            /\ shared_data' = shared_data
            /\ panic_info' = panic_info
            /\ data_lock' = data_lock
            /\ pi_lock' = pi_lock
            /\ (DecodeFails(c) <=> host_panics' = host_panics + 1)
            /\ (DecodeFails(c) => hf'[c] = NoFrame)]_vars

C18_Witness ==
  /\ host_panics = 1
  /\ \E c \in Ctxs :
       /\ hf[c].fn = "register_panic"
       /\ hf[c].step = "decode_file"
       /\ DecodeFails(c)
       /\ \E d \in Ctxs \ {c} : g[d].fn = "trap"
  /\ pi_lock = Free
  /\ data_lock = Free

\* the callback fn running on context c takes a step
Acts(c, fn) == hf[c].fn = fn /\ hf'[c] # hf[c]

\* C19: each host function changes only its own cell. A step of print_str
\* or print_str2 leaves the counter and the channel unchanged; a step of
\* increment_shared leaves the channel unchanged and changes the counter
\* only at its store, by exactly +1; a step of register_panic leaves the
\* counter unchanged. The counter changes in no other way, so it never
\* decreases.
C19_OwnCellOnly ==
  [][ /\ \A c \in Ctxs :
           (Acts(c, "print_str") \/ Acts(c, "print_str2")) =>
             (shared_data' = shared_data /\ panic_info' = panic_info)
      /\ \A c \in Ctxs :
           Acts(c, "increment_shared") =>
             /\ panic_info' = panic_info
             /\ shared_data' = IF hf[c].step = "store"
                                 THEN shared_data + 1
                                 ELSE shared_data
      /\ \A c \in Ctxs :
           Acts(c, "register_panic") => shared_data' = shared_data
      /\ shared_data' # shared_data =>
           \E c \in Ctxs : Acts(c, "increment_shared") /\ hf[c].step = "store"
      /\ shared_data' >= shared_data ]_vars

C19_Witness ==
  /\ shared_data = 1
  /\ returned["increment_shared"] = 1
  /\ panic_info.some
  /\ \E c \in Ctxs : hf[c].fn = "register_panic" /\ hf[c].step = "unlock"

====
